---- MODULE Spec2Model ----
(***************************************************************************)
(* Model of the video progress tracker: the Express/PostgreSQL progress    *)
(* service (table video_progress, the four /progress handlers) with the    *)
(* merge, regression and statistics computations it performs, and the      *)
(* React component that turns timeupdate samples into checkpoints.         *)
(*                                                                         *)
(* Spec        requests handled one at a time, for one video               *)
(* SpecInput   the same with request bodies of any JSON shape              *)
(* SpecStats   one snapshot of up to MaxTotal checkpoints saved and listed *)
(* SpecConc    two save handlers interleaved at their awaits, two videos   *)
(* SpecTracker one mounted component under any samples, seeks included     *)
(* SpecPlay    one mounted component, a longer video played forward        *)
(* SpecFlight  SpecPlay with its saves delivered to the service            *)
(***************************************************************************)
EXTENDS Integers, Sequences, FiniteSets, TLC

(* ---------------------------------------------------------------------- *)
(* Bounds of the model                                                     *)
(* ---------------------------------------------------------------------- *)
MaxLen == 3        \* longest checkpoint array posted to the serial service
MaxTime == 1       \* largest value of the database clock NOW()
MaxTotal == 44     \* longest checkpoint array in the statistics runs
ConcLen == 2       \* longest checkpoint array posted by the concurrent requests
InputLen == 1      \* longest checkpoint array of the unvalidated requests
MaxDuration == 30  \* seconds of the longest video of the tracker runs
LongDuration == 50 \* seconds of the longest video played straight through
MaxAccum == 10     \* largest magnitude of the seconds credited to one segment
MaxTicks == 3      \* the wall clock advances this many times, 2500 ms each

VideoIds == {"v1", "v2"}
UserIds == {"default_user"}
QuizKeys == {"0"}
Procs == {"p1", "p2"}       \* requests in flight at the same time
ServedVideo == "v1"         \* the video of the serial and statistics runs

VARIABLES
    video_progress,   \* the table: a function from a set of (video_id, user_id) to rows
    now,              \* the database clock read by NOW()
    req,              \* the request handled last
    existing,         \* rows the save handler read before its regression check
    resp,             \* the response sent last
    handlers,         \* the save handlers in flight, one per concurrent request
    phase,            \* "mounted" (duration unknown), "ready" or "unmounted"
    duration,         \* player.duration() in seconds, 0 while unknown
    position,         \* player.currentTime() in seconds
    localCheckpoints, \* the component state checkpoints
    accum,            \* seconds credited to each segment since the effect last ran
    prevTime,         \* the playback position of the previous sample
    lastSent,         \* the component state lastSent, Date.now() of the last save
    clock,            \* Date.now() in milliseconds
    completions,      \* the calls of onComplete made so far
    sent,             \* the saves posted so far, oldest first
    pending           \* the fetches of posted saves that have not settled

\* the state of the playback tracker (VideoComponent.jsx)
tracker == <<phase, duration, position, localCheckpoints, accum, prevTime,
             lastSent, clock, completions, sent, pending>>

vars == <<video_progress, now, req, existing, resp, handlers, tracker>>

(* ---------------------------------------------------------------------- *)
(* Values                                                                  *)
(* ---------------------------------------------------------------------- *)
BoolSeqs(n) == UNION {[1..m -> BOOLEAN] : m \in 0..n}

\* a JSON object whose keys are quiz keys and whose values are booleans
QuizMaps == UNION {[S -> BOOLEAN] : S \in SUBSET QuizKeys}

\* the body of a POST that passes validateCheckpoints and validateQuizzes:
\* an array of booleans and, optionally, an object of booleans under numeric
\* keys; quizzes is <<>> when absent, <<q>> when present
ProgressRequest(n) ==
    [checkpoints : BoolSeqs(n), quizzes : {<<>>} \cup {<<q>> : q \in QuizMaps}]

\* a checkpoint array of the given length whose first `done` entries are true
Prefix(total, done) == [i \in 1..total |-> i <= done]

\* pool.query('SELECT * FROM video_progress WHERE video_id = $1 AND user_id = $2')
SelectRow(table, videoId, userId) ==
    IF <<videoId, userId>> \in DOMAIN table
    THEN <<table[<<videoId, userId>>]>>
    ELSE <<>>

(* ---------------------------------------------------------------------- *)
(* mergeProgress                                                           *)
(* ---------------------------------------------------------------------- *)
\* variant: every incoming quiz entry is assigned, mergedQuizzes[key] = value
mergeProgress_AssignsValue(existingRows, incoming) ==
    LET existingCheckpoints ==
            IF Len(existingRows) > 0 THEN existingRows[1].checkpoints ELSE <<>>
        existingQuizzes ==
            IF Len(existingRows) > 0 THEN existingRows[1].quizzes ELSE <<>>
        mergedCheckpoints ==
            [index \in 1..Len(incoming.checkpoints) |->
                LET oldValue == IF index <= Len(existingCheckpoints)
                                THEN existingCheckpoints[index] ELSE FALSE
                IN  oldValue \/ incoming.checkpoints[index]]
        incomingQuizzes ==
            IF Len(incoming.quizzes) > 0 THEN incoming.quizzes[1] ELSE <<>>
        mergedQuizzes ==
            [key \in DOMAIN existingQuizzes \cup DOMAIN incomingQuizzes |->
                IF key \in DOMAIN incomingQuizzes
                THEN incomingQuizzes[key] ELSE existingQuizzes[key]]
    IN  [checkpoints |-> mergedCheckpoints, quizzes |-> mergedQuizzes]

mergeProgress(existingRows, incoming) ==
    LET existingCheckpoints ==
            IF Len(existingRows) > 0 THEN existingRows[1].checkpoints ELSE <<>>
        existingQuizzes ==
            IF Len(existingRows) > 0 THEN existingRows[1].quizzes ELSE <<>>
        mergedCheckpoints ==
            [index \in 1..Len(incoming.checkpoints) |->
                LET oldValue == IF index <= Len(existingCheckpoints)
                                THEN existingCheckpoints[index] ELSE FALSE
                IN  oldValue \/ incoming.checkpoints[index]]
        incomingQuizzes ==
            IF Len(incoming.quizzes) > 0 THEN incoming.quizzes[1] ELSE <<>>
        added == {key \in DOMAIN incomingQuizzes :
                    /\ incomingQuizzes[key]
                    /\ ~(key \in DOMAIN existingQuizzes /\ existingQuizzes[key])}
        mergedQuizzes ==
            [key \in DOMAIN existingQuizzes \cup added |->
                IF key \in added THEN TRUE ELSE existingQuizzes[key]]
    IN  [checkpoints |-> mergedCheckpoints, quizzes |-> mergedQuizzes]

\* variant: an index the incoming array lacks is not counted,
\* oldValue && checkpoints[index] === false
hasRegression_IgnoresAbsent(row, checkpoints) ==
    \E index \in 1..Len(row.checkpoints) :
        /\ row.checkpoints[index]
        /\ index <= Len(checkpoints)
        /\ ~checkpoints[index]

\* variant: every() in place of some()
hasRegression_Every(row, checkpoints) ==
    \A index \in 1..Len(row.checkpoints) :
        /\ row.checkpoints[index]
        /\ ~(index <= Len(checkpoints) /\ checkpoints[index])

\* variant: the negation is missing, oldValue && checkpoints[index]
hasRegression_MissingNot(row, checkpoints) ==
    \E index \in 1..Len(row.checkpoints) :
        /\ row.checkpoints[index]
        /\ index <= Len(checkpoints)
        /\ checkpoints[index]

\* variant: only a shorter array counts as a regression
hasRegression_Shorter(row, checkpoints) ==
    Len(checkpoints) < Len(row.checkpoints)

\* existing.checkpoints.some((oldValue, index) => oldValue && !checkpoints[index])
hasRegression(row, checkpoints) ==
    \E index \in 1..Len(row.checkpoints) :
        /\ row.checkpoints[index]
        /\ ~(index <= Len(checkpoints) /\ checkpoints[index])

(* ---------------------------------------------------------------------- *)
(* Completion statistics                                                   *)
(* ---------------------------------------------------------------------- *)
totalCheckpoints(checkpoints) == Len(checkpoints)

completedCheckpoints(checkpoints) ==
    Cardinality({i \in 1..Len(checkpoints) : checkpoints[i]})

\* completedCheckpoints / totalCheckpoints as the fraction <<num, den>>
completionRate(checkpoints) ==
    IF totalCheckpoints(checkpoints) > 0
    THEN <<completedCheckpoints(checkpoints), totalCheckpoints(checkpoints)>>
    ELSE <<0, 1>>

\* variant: completionRate > 0.8
isCompleted_Strict(rate) == 5 * rate[1] > 4 * rate[2]

\* completionRate >= 0.8
isCompleted(rate) == 5 * rate[1] >= 4 * rate[2]

\* variant: Math.floor in place of Math.round
MathRound100_Floor(rate) == (100 * rate[1]) \div rate[2]

\* variant: Math.ceil in place of Math.round
MathRound100_Ceil(rate) == (100 * rate[1] + rate[2] - 1) \div rate[2]

\* Math.round(completionRate * 100) on IEEE-754 doubles.  Math.round rounds
\* halves up; the double product differs from the exact one only where
\* 100*num/den is an exact half whose quotient is not representable, which
\* for den < 120 is the fraction 23/40 (0.575 * 100 = 57.49999999999999).
MathRound100(rate) ==
    IF 40 * rate[1] = 23 * rate[2]
    THEN 57
    ELSE (200 * rate[1] + rate[2]) \div (2 * rate[2])

Stats(checkpoints) ==
    [total_checkpoints |-> totalCheckpoints(checkpoints),
     completed_checkpoints |-> completedCheckpoints(checkpoints),
     completion_rate |-> MathRound100(completionRate(checkpoints)),
     is_completed |-> isCompleted(completionRate(checkpoints))]

(* ---------------------------------------------------------------------- *)
(* Playback tracker: constants and mounted state                           *)
(*                                                                         *)
(* VideoComponent.jsx misspells two identifiers: duratoin for duration     *)
(* (line 27) and currentTIme for currentTime (line 42).  As written both   *)
(* statements throw and the component never sizes or fills its             *)
(* checkpoints; the model reads them as the names they misspell, so that   *)
(* the handler below them is exercised.                                    *)
(* ---------------------------------------------------------------------- *)
CHECKPOINT_INTERVAL == 10

\* 0.8, as numerator and denominator
COMPLETION_THRESHOLD == <<4, 5>>

PROGRESS_SAVE_DEBOUNCE == 5000

\* Date.now() when the component mounts; any real value exceeds the debounce
StartClock == 10000

\* playback positions and durations of a video of at most longest seconds,
\* in seconds, every fifth second
Positions(longest) == {t \in 0..longest : t % 5 = 0}

Durations(longest) == Positions(longest) \ {0}

\* player.playbackRate()
Rates == {1, 2}

\* Array(count).fill(v)
Filled(count, v) == [i \in 1..count |-> v]

\* Math.ceil(duration / CHECKPOINT_INTERVAL)
CeilDiv(a, b) == (a + b - 1) \div b

\* useState([]), useState(0) and the first run of both effects
TrackerInit ==
    /\ phase = "mounted"
    /\ duration = 0
    /\ position = 0
    /\ localCheckpoints = <<>>
    /\ accum = <<>>
    /\ prevTime = 0
    /\ lastSent = 0
    /\ clock = StartClock
    /\ completions = 0
    /\ sent = <<>>
    /\ pending = 0

(* ---------------------------------------------------------------------- *)
(* Handlers, each request handled to completion                            *)
(* ---------------------------------------------------------------------- *)
Init ==
    /\ video_progress = <<>>
    /\ now = 0
    /\ req = [op |-> "none"]
    /\ existing = <<>>
    /\ resp = [status |-> 0]
    /\ handlers = [p \in Procs |-> [pc |-> "idle"]]
    /\ TrackerInit

\* INSERT ... ON CONFLICT (video_id, user_id) DO UPDATE ... RETURNING *
Upsert(table, videoId, userId, merged, time) ==
    LET row == [checkpoints |-> merged.checkpoints,
                quizzes |-> merged.quizzes,
                updated_at |-> time]
    IN  [key \in DOMAIN table \cup {<<videoId, userId>>} |->
            IF key = <<videoId, userId>> THEN row ELSE table[key]]

\* POST /api/videos/:videoId/progress
SaveProgress(videoId, userId, body) ==
    LET rows == SelectRow(video_progress, videoId, userId)
        merged == mergeProgress(rows, body)
        saved == Upsert(video_progress, videoId, userId, merged, now)
    IN  /\ req' = [op |-> "save", videoId |-> videoId, userId |-> userId, body |-> body]
        /\ existing' = rows
        /\ IF Len(rows) > 0 /\ hasRegression(rows[1], body.checkpoints)
           THEN /\ resp' = [status |-> 400,
                            error |-> "Cannot uncomplete previously completed checkpoints"]
                /\ UNCHANGED video_progress
           ELSE /\ video_progress' = saved
                /\ resp' = [status |-> 200,
                            progress |-> saved[<<videoId, userId>>],
                            stats |-> Stats(merged.checkpoints)]
        /\ UNCHANGED <<now, handlers, tracker>>

\* a read that answers 404 when the key has no row
ReadProgress_NotFound(videoId, userId) ==
    LET rows == SelectRow(video_progress, videoId, userId)
    IN  /\ req' = [op |-> "read", videoId |-> videoId, userId |-> userId]
        /\ resp' = IF Len(rows) = 0
                   THEN [status |-> 404, error |-> "No progress found"]
                   ELSE [status |-> 200, checkpoints |-> rows[1].checkpoints,
                         quizzes |-> rows[1].quizzes,
                         updated_at |-> rows[1].updated_at]
        /\ UNCHANGED <<video_progress, now, existing, handlers, tracker>>

\* GET /api/videos/:videoId/progress
ReadProgress(videoId, userId) ==
    LET rows == SelectRow(video_progress, videoId, userId)
    IN  /\ req' = [op |-> "read", videoId |-> videoId, userId |-> userId]
        /\ resp' = IF Len(rows) = 0
                   THEN [status |-> 200, checkpoints |-> <<>>, quizzes |-> <<>>,
                         message |-> "No progress found - starting fresh"]
                   ELSE [status |-> 200, checkpoints |-> rows[1].checkpoints,
                         quizzes |-> rows[1].quizzes,
                         updated_at |-> rows[1].updated_at]
        /\ UNCHANGED <<video_progress, now, existing, handlers, tracker>>

\* DELETE /api/videos/:videoId/progress
ResetProgress(videoId, userId) ==
    /\ req' = [op |-> "reset", videoId |-> videoId, userId |-> userId]
    /\ video_progress' = [key \in DOMAIN video_progress \ {<<videoId, userId>>} |->
                            video_progress[key]]
    /\ resp' = [status |-> 200, success |-> TRUE]
    /\ UNCHANGED <<now, existing, handlers, tracker>>

\* GET /api/users/:userId/progress: the user's rows, ORDER BY updated_at DESC
\* (rows with equal updated_at come in either order)
ListProgress(userId) ==
    LET videos == {v \in VideoIds : <<v, userId>> \in DOMAIN video_progress}
        orders == {o \in [1..Cardinality(videos) -> videos] :
                     /\ \A i, j \in DOMAIN o : i # j => o[i] # o[j]
                     /\ \A i, j \in DOMAIN o :
                          i < j => video_progress[<<o[i], userId>>].updated_at
                                     >= video_progress[<<o[j], userId>>].updated_at}
    IN  /\ req' = [op |-> "list", userId |-> userId]
        /\ \E o \in orders :
             resp' = [status |-> 200,
                      progress |-> [i \in DOMAIN o |->
                          LET row == video_progress[<<o[i], userId>>]
                          IN  [video_id |-> o[i],
                               checkpoints |-> row.checkpoints,
                               quizzes |-> row.quizzes,
                               updated_at |-> row.updated_at,
                               stats |-> Stats(row.checkpoints)]]]
        /\ UNCHANGED <<video_progress, now, existing, handlers, tracker>>

\* the database clock advances
Tick ==
    /\ now < MaxTime
    /\ now' = now + 1
    /\ UNCHANGED <<video_progress, req, existing, resp, handlers, tracker>>

Save ==
    \E userId \in UserIds, body \in ProgressRequest(MaxLen) :
        SaveProgress(ServedVideo, userId, body)

Read == \E userId \in UserIds : ReadProgress(ServedVideo, userId)

Reset == \E userId \in UserIds : ResetProgress(ServedVideo, userId)

List == \E userId \in UserIds : ListProgress(userId)

Next == Save \/ Read \/ Reset \/ List \/ Tick

Spec == Init /\ [][Next]_vars

(* ---------------------------------------------------------------------- *)
(* Request bodies as express.json() hands them to the POST handler, and    *)
(* the validation the handler runs on them                                 *)
(* ---------------------------------------------------------------------- *)
\* the JSON values of array entries and object members, by their JSON text
JsonValues == {"true", "false", "1"}

\* typeof value === 'boolean'
TypeofBoolean(value) == value \in {"true", "false"}

\* the truthiness of a value
Truthy(value) == value # "false"

\* the keys of the quiz objects posted
KeyTexts == {"0", "-1", "1.5", "a"}

\* isNaN(Number(key))
NumberIsNaN(key) == key = "a"

\* req.body.checkpoints: kind says what the value is, items holds the
\* entries of an array
RawCheckpoints ==
    {[kind |-> "undefined", items |-> <<>>], [kind |-> "string", items |-> <<>>]}
    \cup {[kind |-> "array", items |-> items] :
             items \in UNION {[1..n -> JsonValues] : n \in 0..InputLen}}

\* req.body.quizzes: kind says what the value is, entries is what
\* Object.entries returns for it (the number 7, the string "1", the array
\* [true], and objects of at most one member)
RawQuizzes ==
    {[kind |-> "undefined", entries |-> <<>>],
     [kind |-> "null", entries |-> <<>>],
     [kind |-> "number", entries |-> <<>>],
     [kind |-> "string", entries |-> [key \in {"0"} |-> "1"]],
     [kind |-> "array", entries |-> [key \in {"0"} |-> "true"]],
     [kind |-> "object", entries |-> <<>>]}
    \cup {[kind |-> "object", entries |-> [k \in {key} |-> value]] :
             key \in KeyTexts, value \in JsonValues}

RawBodies == [checkpoints : RawCheckpoints, quizzes : RawQuizzes]

validateCheckpoints(rawCheckpoints) ==
    /\ rawCheckpoints.kind = "array"
    /\ \A i \in DOMAIN rawCheckpoints.items : TypeofBoolean(rawCheckpoints.items[i])

\* !quizzes
Falsy(rawQuizzes) == rawQuizzes.kind \in {"undefined", "null"}

\* typeof quizzes === 'object'
TypeofObject(rawQuizzes) == rawQuizzes.kind \in {"object", "array", "null"}

validateQuizzes(rawQuizzes) ==
    IF Falsy(rawQuizzes) \/ ~TypeofObject(rawQuizzes)
    THEN TRUE
    ELSE \A key \in DOMAIN rawQuizzes.entries :
            ~NumberIsNaN(key) /\ TypeofBoolean(rawQuizzes.entries[key])

\* what mergeProgress and the regression check read of a validated body:
\* the booleans of the array and, of a truthy quizzes, the truthiness of
\* the entries
Incoming(raw) ==
    [checkpoints |-> [i \in DOMAIN raw.checkpoints.items |->
                         raw.checkpoints.items[i] = "true"],
     quizzes |-> IF Falsy(raw.quizzes)
                 THEN <<>>
                 ELSE <<[key \in DOMAIN raw.quizzes.entries |->
                            Truthy(raw.quizzes.entries[key])]>>]

\* POST /api/videos/:videoId/progress with any body
PostProgress(videoId, userId, raw) ==
    LET body == Incoming(raw)
        rows == SelectRow(video_progress, videoId, userId)
        merged == mergeProgress(rows, body)
        saved == Upsert(video_progress, videoId, userId, merged, now)
    IN  /\ req' = [op |-> "save", videoId |-> videoId, userId |-> userId, raw |-> raw]
        /\ IF ~validateCheckpoints(raw.checkpoints)
           THEN /\ resp' = [status |-> 400, error |-> "Invalid checkpoints format"]
                /\ UNCHANGED <<video_progress, existing>>
           ELSE IF ~validateQuizzes(raw.quizzes)
           THEN /\ resp' = [status |-> 400, error |-> "Invalid quizzes format"]
                /\ UNCHANGED <<video_progress, existing>>
           ELSE IF Len(rows) > 0 /\ hasRegression(rows[1], body.checkpoints)
           THEN /\ resp' = [status |-> 400,
                            error |-> "Cannot uncomplete previously completed checkpoints"]
                /\ existing' = rows
                /\ UNCHANGED video_progress
           ELSE /\ video_progress' = saved
                /\ existing' = rows
                /\ resp' = [status |-> 200,
                            progress |-> saved[<<videoId, userId>>],
                            stats |-> Stats(merged.checkpoints)]
        /\ UNCHANGED <<now, handlers, tracker>>

Post == \E userId \in UserIds, raw \in RawBodies : PostProgress(ServedVideo, userId, raw)

NextInput == Post \/ Read \/ Reset

SpecInput == Init /\ [][NextInput]_vars

(* ---------------------------------------------------------------------- *)
(* Statistics runs: one snapshot of any length saved to a fresh record     *)
(* ---------------------------------------------------------------------- *)
StatsSave ==
    \E userId \in UserIds, total \in 0..MaxTotal :
        \E done \in 0..total :
            /\ Len(SelectRow(video_progress, ServedVideo, userId)) = 0
            /\ SaveProgress(ServedVideo, userId,
                    [checkpoints |-> Prefix(total, done), quizzes |-> <<>>])

NextStats == StatsSave \/ List \/ Reset

SpecStats == Init /\ [][NextStats]_vars

(* ---------------------------------------------------------------------- *)
(* Concurrent saves: the handler is suspended at its two awaits, the       *)
(* SELECT and the INSERT, and other handlers run in between                *)
(* ---------------------------------------------------------------------- *)
\* the request arrives; validation passes and the SELECT is issued
BeginSave(p, videoId, userId, body) ==
    /\ handlers[p].pc = "idle"
    /\ handlers' = [handlers EXCEPT ![p] =
            [pc |-> "select", videoId |-> videoId, userId |-> userId, body |-> body]]
    /\ UNCHANGED <<video_progress, now, req, existing, resp, tracker>>

\* the SELECT returns; the regression check runs and either answers 400 or
\* leaves the handler waiting for its INSERT
SelectExisting(p) ==
    LET h == handlers[p]
        rows == SelectRow(video_progress, h.videoId, h.userId)
    IN  /\ h.pc = "select"
        /\ handlers' = [handlers EXCEPT ![p] =
                IF Len(rows) > 0 /\ hasRegression(rows[1], h.body.checkpoints)
                THEN [pc |-> "done", videoId |-> h.videoId, userId |-> h.userId,
                      body |-> h.body, existing |-> rows,
                      resp |-> [status |-> 400,
                                error |-> "Cannot uncomplete previously completed checkpoints"]]
                ELSE [pc |-> "upsert", videoId |-> h.videoId, userId |-> h.userId,
                      body |-> h.body, existing |-> rows]]
        /\ UNCHANGED <<video_progress, now, req, existing, resp, tracker>>

\* the INSERT of the merge of the rows read earlier runs; 200 is answered
UpsertMerged(p) ==
    LET h == handlers[p]
        merged == mergeProgress(h.existing, h.body)
        saved == Upsert(video_progress, h.videoId, h.userId, merged, now)
    IN  /\ h.pc = "upsert"
        /\ video_progress' = saved
        /\ handlers' = [handlers EXCEPT ![p] =
                [pc |-> "done", videoId |-> h.videoId, userId |-> h.userId,
                 body |-> h.body, existing |-> h.existing,
                 resp |-> [status |-> 200,
                           progress |-> saved[<<h.videoId, h.userId>>],
                           stats |-> Stats(merged.checkpoints)]]]
        /\ UNCHANGED <<now, req, existing, resp, tracker>>

NextConc ==
    \/ \E p \in Procs, videoId \in VideoIds, userId \in UserIds,
          body \in ProgressRequest(ConcLen) : BeginSave(p, videoId, userId, body)
    \/ \E p \in Procs : SelectExisting(p)
    \/ \E p \in Procs : UpsertMerged(p)

SpecConc == Init /\ [][NextConc]_vars

(* ---------------------------------------------------------------------- *)
(* Playback tracker (VideoComponent.jsx): one mounted component            *)
(* ---------------------------------------------------------------------- *)
\* the state of the progress service
server == <<video_progress, now, req, existing, resp, handlers>>

\* updated.filter(Boolean).length
Cleared(updated) == Cardinality({i \in DOMAIN updated : updated[i]})

\* cleared / updated.length >= COMPLETION_THRESHOLD
ReachesThreshold(updated) ==
    Cleared(updated) * COMPLETION_THRESHOLD[2] >= COMPLETION_THRESHOLD[1] * Len(updated)

\* the previous state written over by a fresh array holding the new entry only
SetCheckpoint_Fresh(prev, idx) == [i \in DOMAIN prev |-> i = idx + 1]

\* const updated = [...prev]; updated[idx] = true
SetCheckpoint(prev, idx) == [prev EXCEPT ![idx + 1] = TRUE]

\* a save as soon as the debounce interval has elapsed
DebounceElapsed_AtLeast(nowMs, last) == nowMs - last >= PROGRESS_SAVE_DEBOUNCE

\* now - lastSent > PROGRESS_SAVE_DEBOUNCE
DebounceElapsed(nowMs, last) == nowMs - last > PROGRESS_SAVE_DEBOUNCE

\* the player is ready: the checkpoints are sized from the duration, and the
\* effect on [checkpoints] runs again (prevTime = 0, accum filled with 0)
Ready(d) ==
    LET count == CeilDiv(d, CHECKPOINT_INTERVAL)
    IN  /\ phase = "mounted"
        /\ phase' = "ready"
        /\ duration' = d
        /\ localCheckpoints' = Filled(count, FALSE)
        /\ prevTime' = 0
        /\ accum' = Filled(count, 0)
        /\ UNCHANGED <<position, lastSent, clock, completions, sent, pending, server>>

\* the player has moved to currentTime and fires timeupdate: the listener
\* and, when it sets a checkpoint, the state updater it passes to
\* setCheckpoints (with onComplete and saveProgress) and the run of the
\* effect on [checkpoints] that the new state causes
onTimeUpdate(currentTime, playbackRate) ==
    LET delta == (currentTime - prevTime) * playbackRate
        idx == currentTime \div CHECKPOINT_INTERVAL
        inRange == idx >= 0 /\ idx < Len(accum)
        credited == IF inRange THEN [accum EXCEPT ![idx + 1] = @ + delta] ELSE accum
        newly == /\ inRange
                 /\ credited[idx + 1] >= CHECKPOINT_INTERVAL
                 /\ ~localCheckpoints[idx + 1]
        updated == SetCheckpoint(localCheckpoints, idx)
    IN  /\ phase \in {"mounted", "ready"}
        /\ currentTime <= duration
        /\ position' = currentTime
        /\ IF newly
           THEN /\ localCheckpoints' = updated
                /\ completions' = IF ReachesThreshold(updated)
                                   THEN completions + 1 ELSE completions
                /\ IF DebounceElapsed(clock, lastSent)
                   THEN /\ sent' = Append(sent, [at |-> clock, checkpoints |-> updated])
                        /\ pending' = pending + 1
                        /\ lastSent' = clock
                   ELSE UNCHANGED <<sent, pending, lastSent>>
                /\ prevTime' = 0
                /\ accum' = Filled(Len(updated), 0)
           ELSE /\ prevTime' = currentTime
                /\ accum' = credited
                /\ \A i \in DOMAIN credited :
                     credited[i] >= -MaxAccum /\ credited[i] <= MaxAccum
                /\ UNCHANGED <<localCheckpoints, completions, sent, pending, lastSent>>
        /\ UNCHANGED <<phase, duration, clock, server>>

\* the component unmounts: the listener is removed and the player disposed
Unmount ==
    /\ phase \in {"mounted", "ready"}
    /\ phase' = "unmounted"
    /\ UNCHANGED <<duration, position, localCheckpoints, accum, prevTime, lastSent,
                   clock, completions, sent, pending, server>>

\* the fetch of a posted save settles: it resolves, or it rejects and the
\* error is logged; the component state is not touched either way
FetchSettles(outcome) ==
    /\ pending > 0
    /\ outcome \in {"resolved", "rejected"}
    /\ pending' = pending - 1
    /\ UNCHANGED <<phase, duration, position, localCheckpoints, accum, prevTime,
                   lastSent, clock, completions, sent, server>>

\* the wall clock advances
ClockTick ==
    /\ clock < StartClock + 2500 * MaxTicks
    /\ clock' = clock + 2500
    /\ UNCHANGED <<phase, duration, position, localCheckpoints, accum, prevTime,
                   lastSent, completions, sent, pending, server>>

TimeUpdate == \E currentTime \in Positions(MaxDuration), playbackRate \in Rates :
                  onTimeUpdate(currentTime, playbackRate)

Settle == \E outcome \in {"resolved", "rejected"} : FetchSettles(outcome)

NextTracker ==
    \/ \E d \in Durations(MaxDuration) : Ready(d)
    \/ TimeUpdate
    \/ Unmount
    \/ Settle
    \/ ClockTick

SpecTracker == Init /\ [][NextTracker]_vars

(* ---------------------------------------------------------------------- *)
(* Plain playback of a longer video: the position only moves forward       *)
(* ---------------------------------------------------------------------- *)
PlayOn == \E currentTime \in Positions(LongDuration), playbackRate \in Rates :
              /\ currentTime > position
              /\ onTimeUpdate(currentTime, playbackRate)

NextPlay ==
    \/ \E d \in Durations(LongDuration) : Ready(d)
    \/ PlayOn
    \/ Unmount
    \/ Settle
    \/ ClockTick

SpecPlay == Init /\ [][NextPlay]_vars

(* ---------------------------------------------------------------------- *)
(* The saves of one playback session on their way to the service: the      *)
(* network delivers any posted save at any time, any number of times       *)
(* ---------------------------------------------------------------------- *)
\* fetch(`/api/videos/${videoId}/progress`, {method: 'POST',
\*       body: JSON.stringify({ checkpoints: states })}) reaches the handler
Deliver(i) ==
    /\ i \in DOMAIN sent
    /\ SaveProgress(ServedVideo, "default_user",
                    [checkpoints |-> sent[i].checkpoints, quizzes |-> <<>>])

NextFlight ==
    \/ \E d \in Durations(LongDuration) : Ready(d)
    \/ PlayOn
    \/ Unmount
    \/ Settle
    \/ ClockTick
    \/ \E i \in 1..(MaxTicks + 1) : Deliver(i)

SpecFlight == Init /\ [][NextFlight]_vars

(* ---------------------------------------------------------------------- *)
(* Vocabulary of the properties                                            *)
(* ---------------------------------------------------------------------- *)
Max(a, b) == IF a >= b THEN a ELSE b

\* entry i of a checkpoint array, an entry the array lacks read as false
At(checkpoints, i) == i <= Len(checkpoints) /\ checkpoints[i]

RowsCheckpoints(rows) == IF Len(rows) > 0 THEN rows[1].checkpoints ELSE <<>>

RowsQuizzes(rows) == IF Len(rows) > 0 THEN rows[1].quizzes ELSE <<>>

BodyQuizzes(body) == IF Len(body.quizzes) > 0 THEN body.quizzes[1] ELSE <<>>

\* the stored row of the request handled last, before and after the step
Stored == SelectRow(video_progress, req.videoId, req.userId)

StoredBefore == SelectRow(video_progress, req'.videoId, req'.userId)

StoredAfter == SelectRow(video_progress', req'.videoId, req'.userId)

\* some true checkpoint of the stored row is false or absent in the array
Regresses(rows, checkpoints) ==
    /\ Len(rows) > 0
    /\ \E i \in 1..Len(rows[1].checkpoints) :
          rows[1].checkpoints[i] /\ ~At(checkpoints, i)

OrSeq(a, b) == [i \in 1..Max(Len(a), Len(b)) |-> At(a, i) \/ At(b, i)]

(* ---------------------------------------------------------------------- *)
(* Properties of the serial service (Spec)                                 *)
(* ---------------------------------------------------------------------- *)

\* C1: a save, accepted or rejected, leaves every stored true checkpoint of
\* every record true; only a reset may take it away.
C1_CheckpointsStayTrue ==
    [][req'.op = "save" =>
        \A key \in DOMAIN video_progress :
            \A i \in 1..Len(video_progress[key].checkpoints) :
                video_progress[key].checkpoints[i] =>
                    /\ key \in DOMAIN video_progress'
                    /\ At(video_progress'[key].checkpoints, i)]_vars

\* a longer array was accepted over a record that had a true checkpoint
C1_Witness ==
    /\ req.op = "save"
    /\ resp.status = 200
    /\ Len(existing) > 0
    /\ Len(req.body.checkpoints) > Len(existing[1].checkpoints)
    /\ \E i \in 1..Len(existing[1].checkpoints) :
          existing[1].checkpoints[i] /\ At(RowsCheckpoints(Stored), i)

\* C2: a save that would turn a stored true checkpoint false, or that lacks
\* its index, is answered 400 and leaves the table exactly as it was.
C2_RegressionRejectedWhole ==
    [][(/\ req'.op = "save"
        /\ Regresses(StoredBefore, req'.body.checkpoints))
       => (resp'.status = 400 /\ video_progress' = video_progress)]_vars

\* a shorter array carrying a new true quiz answer was rejected and nothing
\* of it was stored
C2_Witness ==
    /\ req.op = "save"
    /\ resp.status = 400
    /\ Len(existing) > 0
    /\ Len(req.body.checkpoints) < Len(existing[1].checkpoints)
    /\ Regresses(existing, req.body.checkpoints)
    /\ \E k \in DOMAIN BodyQuizzes(req.body) :
          BodyQuizzes(req.body)[k] /\ k \notin DOMAIN RowsQuizzes(Stored)
    /\ Stored = existing

\* C3: after an accepted save the stored array has the length of the longer
\* of the stored and the incoming array and is their pointwise OR.
C3_MergeCoversUnion ==
    (req.op = "save" /\ resp.status = 200) =>
        LET old == RowsCheckpoints(existing)
            inc == req.body.checkpoints
            new == RowsCheckpoints(Stored)
        IN  /\ Len(new) = Max(Len(old), Len(inc))
            /\ \A i \in 1..Len(new) : new[i] = (At(old, i) \/ At(inc, i))

\* the save of [T,F,F] to an absent record is followed by the save of cps
TwoSaves(cps) ==
    /\ req.op = "save"
    /\ existing = <<>>
    /\ req.body.checkpoints = <<TRUE, FALSE, FALSE>>
    /\ req'.op = "save"
    /\ req'.videoId = req.videoId
    /\ req'.userId = req.userId
    /\ req'.body.checkpoints = cps

\* C5 as stated: [T,F,F] then [F,T,F] stores [T,T,F] and answers 3, 2, 67, false.
C5_TwoSaveScenario ==
    [][TwoSaves(<<FALSE, TRUE, FALSE>>) =>
        /\ RowsCheckpoints(StoredAfter) = <<TRUE, TRUE, FALSE>>
        /\ resp'.status = 200
        /\ resp'.stats = [total_checkpoints |-> 3, completed_checkpoints |-> 2,
                          completion_rate |-> 67, is_completed |-> FALSE]]_vars

\* C5 amended: [T,F,F] then [F,T,F] is rejected and [T,F,F] stays stored;
\* [T,F,F] then [T,T,F] stores [T,T,F] and answers 3, 2, 67, false.
C5_TwoSaveScenarioAmended ==
    [][/\ TwoSaves(<<FALSE, TRUE, FALSE>>) =>
            /\ resp'.status = 400
            /\ video_progress' = video_progress
            /\ RowsCheckpoints(StoredAfter) = <<TRUE, FALSE, FALSE>>
       /\ TwoSaves(<<TRUE, TRUE, FALSE>>) =>
            /\ RowsCheckpoints(StoredAfter) = <<TRUE, TRUE, FALSE>>
            /\ resp'.status = 200
            /\ resp'.stats = [total_checkpoints |-> 3, completed_checkpoints |-> 2,
                              completion_rate |-> 67, is_completed |-> FALSE]]_vars

\* [F,T,F] was rejected over a stored [T,F,F], which is still stored
C5_Witness ==
    /\ req.op = "save"
    /\ resp.status = 400
    /\ req.body.checkpoints = <<FALSE, TRUE, FALSE>>
    /\ RowsCheckpoints(existing) = <<TRUE, FALSE, FALSE>>
    /\ RowsCheckpoints(Stored) = <<TRUE, FALSE, FALSE>>

\* C6: a save keeps every stored true quiz answer true and present, and an
\* incoming false for a key the stored map lacks does not add the key.
C6_QuizzesStayTrue ==
    [][req'.op = "save" =>
        LET before == RowsQuizzes(StoredBefore)
            after == RowsQuizzes(StoredAfter)
            inc == BodyQuizzes(req'.body)
        IN  /\ \A k \in DOMAIN before :
                  before[k] => (k \in DOMAIN after /\ after[k])
            /\ \A k \in DOMAIN inc :
                  (~inc[k] /\ k \notin DOMAIN before) => k \notin DOMAIN after]_vars

\* an accepted save said false for a stored true key, which is still true
C6_Witness ==
    /\ req.op = "save"
    /\ resp.status = 200
    /\ \E k \in DOMAIN RowsQuizzes(existing) :
          /\ RowsQuizzes(existing)[k]
          /\ k \in DOMAIN BodyQuizzes(req.body)
          /\ ~BodyQuizzes(req.body)[k]
          /\ RowsQuizzes(Stored)[k]

\* C9: the same request sent again right after it was accepted is accepted
\* and leaves the stored checkpoints and quizzes as the first save left them.
C9_SaveIdempotent ==
    [][(req.op = "save" /\ resp.status = 200 /\ req' = req) =>
        /\ resp'.status = 200
        /\ RowsCheckpoints(StoredAfter) = RowsCheckpoints(Stored)
        /\ RowsQuizzes(StoredAfter) = RowsQuizzes(Stored)]_vars

\* a request was accepted, at a later time, over the record that an earlier
\* save of the same checkpoints and quiz answers had left
C9_Witness ==
    /\ req.op = "save"
    /\ resp.status = 200
    /\ Len(existing) > 0
    /\ existing[1].checkpoints = req.body.checkpoints
    /\ \E i \in 1..Len(req.body.checkpoints) : req.body.checkpoints[i]
    /\ \E k \in DOMAIN BodyQuizzes(req.body) : BodyQuizzes(req.body)[k]
    /\ \A k \in DOMAIN BodyQuizzes(req.body) :
          BodyQuizzes(req.body)[k] => k \in DOMAIN existing[1].quizzes
    /\ existing[1].updated_at < Stored[1].updated_at
    /\ Stored[1].checkpoints = existing[1].checkpoints
    /\ Stored[1].quizzes = existing[1].quizzes

\* the checkpoints a single save of the array leaves over the rows
SingleSaveCheckpoints(rows, checkpoints) ==
    IF Len(rows) > 0 /\ hasRegression(rows[1], checkpoints)
    THEN rows[1].checkpoints
    ELSE mergeProgress(rows, [checkpoints |-> checkpoints, quizzes |-> <<>>]).checkpoints

\* C10: two accepted saves a then b leave the checkpoints that one save of
\* the pointwise OR of a and b leaves over the record a was saved to.
C10_TwoSavesEqualJoin ==
    [][(/\ req.op = "save"
        /\ resp.status = 200
        /\ req'.op = "save"
        /\ req'.videoId = req.videoId
        /\ req'.userId = req.userId
        /\ resp'.status = 200)
       => RowsCheckpoints(StoredAfter) =
            SingleSaveCheckpoints(existing,
                OrSeq(req.body.checkpoints, req'.body.checkpoints))]_vars

\* C11: reading a key that has no record (never saved, or deleted by a reset)
\* answers 200 with empty checkpoints and an empty quiz map, not an error; a
\* read never changes the table; a reset answers success and leaves no record
\* whether or not one existed.
C11_AbsentReadsEmpty ==
    [][/\ req'.op = "read" =>
            /\ video_progress' = video_progress
            /\ resp'.status = 200
            /\ Len(StoredBefore) = 0 =>
                    resp'.checkpoints = <<>> /\ resp'.quizzes = <<>>
       /\ req'.op = "reset" =>
            /\ resp'.status = 200
            /\ resp'.success
            /\ Len(StoredAfter) = 0]_vars

\* a record existed when the last save arrived, a reset has deleted it since,
\* and the read that followed was answered with the empty progress
C11_Witness ==
    /\ req.op = "read"
    /\ Len(existing) > 0
    /\ Len(Stored) = 0
    /\ resp.status = 200
    /\ resp.checkpoints = <<>>
    /\ resp.quizzes = <<>>

(* ---------------------------------------------------------------------- *)
(* Properties of the validation (SpecInput)                                *)
(* ---------------------------------------------------------------------- *)
\* the key reads as a non-negative integer
NonNegativeInteger(key) == key \in {"0"}

\* the body the handler is to accept: an array of booleans and, if present,
\* an object of booleans under non-negative integer keys
WellFormedBody(raw) ==
    /\ raw.checkpoints.kind = "array"
    /\ \A i \in DOMAIN raw.checkpoints.items : raw.checkpoints.items[i] \in {"true", "false"}
    /\ \/ raw.quizzes.kind \in {"undefined", "null"}
       \/ /\ raw.quizzes.kind = "object"
          /\ \A key \in DOMAIN raw.quizzes.entries :
                /\ NonNegativeInteger(key)
                /\ raw.quizzes.entries[key] \in {"true", "false"}

\* every stored checkpoint is a boolean, every stored quiz key is a
\* non-negative integer and its value a boolean
WellFormedTable(table) ==
    \A key \in DOMAIN table :
        /\ \A i \in DOMAIN table[key].checkpoints : table[key].checkpoints[i] \in BOOLEAN
        /\ \A k \in DOMAIN table[key].quizzes :
              NonNegativeInteger(k) /\ table[key].quizzes[k] \in BOOLEAN

\* C12: every stored checkpoint entry is a boolean and every stored quiz key
\* a non-negative integer with a boolean value; a save whose checkpoints are
\* not an array of booleans, or whose quizzes are not a mapping of
\* non-negative integer keys to booleans, is answered 400 and stores nothing.
C12_OnlyWellFormedStored ==
    [][/\ WellFormedTable(video_progress')
       /\ (req'.op = "save" /\ ~WellFormedBody(req'.raw)) =>
              /\ resp'.status = 400
              /\ video_progress' = video_progress]_vars

(* ---------------------------------------------------------------------- *)
(* Properties of the playback tracker (SpecTracker, SpecPlay)              *)
(* ---------------------------------------------------------------------- *)
\* a checkpoint is set in this step
NewCheckpoint ==
    \E i \in DOMAIN localCheckpoints : ~localCheckpoints[i] /\ localCheckpoints'[i]

C15_SavesDebounced ==
    [][sent' # sent =>
          /\ Len(sent') = Len(sent) + 1
          /\ \A j \in DOMAIN sent : sent'[j] = sent[j]
          /\ NewCheckpoint
          /\ sent'[Len(sent')].checkpoints = localCheckpoints'
          /\ sent'[Len(sent')].at = clock
          /\ Len(sent) > 0 =>
                sent'[Len(sent')].at - sent[Len(sent)].at > PROGRESS_SAVE_DEBOUNCE]_vars

\* two saves were posted more than the debounce apart, and between them a
\* checkpoint was set within the debounce and went unposted until the
\* second save carried it
C15_Witness ==
    /\ Len(sent) = 2
    /\ sent[2].at - sent[1].at > PROGRESS_SAVE_DEBOUNCE
    /\ Cleared(sent[2].checkpoints) = Cleared(sent[1].checkpoints) + 2
    /\ localCheckpoints = sent[2].checkpoints

\* C16: with a duration of at least 20 seconds and the previous sample at 0,
\* the sample (currentTime = 10, rate = 1) credits 10 seconds to segment 0
\* and sets checkpoints[0] in that one step.
C16_FirstSegmentScenario ==
    [][(/\ phase = "ready"
        /\ duration >= 2 * CHECKPOINT_INTERVAL
        /\ prevTime = 0
        /\ onTimeUpdate(CHECKPOINT_INTERVAL, 1)) =>
          localCheckpoints'[1]]_vars

C18_LocalCheckpointsStayTrue ==
    [][phase = "ready" =>
          /\ Len(localCheckpoints') = Len(localCheckpoints)
          /\ \A i \in DOMAIN localCheckpoints :
                localCheckpoints[i] => localCheckpoints'[i]]_vars

\* every segment of a two-segment video is checked, a save has been posted
\* and has settled, and samples have been credited since
C18_Witness ==
    /\ phase = "ready"
    /\ Len(localCheckpoints) = 2
    /\ \A i \in DOMAIN localCheckpoints : localCheckpoints[i]
    /\ Len(sent) > 0
    /\ pending = 0
    /\ \E i \in DOMAIN accum : accum[i] # 0

StrictlySmaller(a, b) ==
    /\ Len(a) = Len(b)
    /\ \A i \in DOMAIN a : a[i] => b[i]
    /\ a # b

\* C20: the saves of one session are delivered to a record that starts
\* absent, in any order, repeated or lost, one at a time.  After every
\* delivery the stored vector is the pointwise largest snapshot delivered
\* so far: it is one of the posted snapshots and the pointwise or of what
\* was stored and what was delivered; a delivered snapshot strictly smaller
\* than the stored vector is answered 400 and changes nothing.
C20_StoredIsLargestDelivered ==
    [][req'.op = "save" =>
          LET snapshot == req'.body.checkpoints
              before == RowsCheckpoints(StoredBefore)
              after == RowsCheckpoints(StoredAfter)
          IN  /\ Len(StoredAfter) > 0
              /\ after = OrSeq(before, snapshot)
              /\ \E j \in DOMAIN sent' : after = sent'[j].checkpoints
              /\ \A i \in DOMAIN after : snapshot[i] => after[i]
              /\ (Len(StoredBefore) > 0 /\ StrictlySmaller(snapshot, before)) =>
                    /\ resp'.status = 400
                    /\ video_progress' = video_progress]_vars

\* the second save of the session was delivered and stored, and the first,
\* delivered after it, has been rejected
C20_Witness ==
    /\ Len(sent) = 2
    /\ req.op = "save"
    /\ req.body.checkpoints = sent[1].checkpoints
    /\ resp.status = 400
    /\ RowsCheckpoints(Stored) = sent[2].checkpoints
    /\ StrictlySmaller(sent[1].checkpoints, sent[2].checkpoints)

(* ---------------------------------------------------------------------- *)
(* Properties of the statistics (SpecStats)                                *)
(* ---------------------------------------------------------------------- *)
TrueCount(checkpoints) == Cardinality({i \in DOMAIN checkpoints : checkpoints[i]})

\* n/d rounded to the nearest integer, halves up
RoundHalfUp(n, d) == (2 * n + d) \div (2 * d)

ThresholdHolds(checkpoints, stats) ==
    LET total == Len(checkpoints)
        completed == TrueCount(checkpoints)
    IN  /\ stats.total_checkpoints = total
        /\ stats.completed_checkpoints = completed
        /\ stats.is_completed <=> (total > 0 /\ 5 * completed >= 4 * total)
        /\ total = 0 => (stats.completion_rate = 0 /\ ~stats.is_completed)

\* C7: in the answers of a save and of a list, is_completed is true exactly
\* when the array is not empty and completed/total >= 0.8; an empty array
\* has rate 0 and is not completed.
C7_CompletionThreshold ==
    /\ (req.op = "save" /\ resp.status = 200) =>
            ThresholdHolds(resp.progress.checkpoints, resp.stats)
    /\ req.op = "list" =>
            \A i \in DOMAIN resp.progress :
                ThresholdHolds(resp.progress[i].checkpoints, resp.progress[i].stats)

\* a list answer reports a record with 4 of 5 checkpoints as completed
C7_Witness ==
    /\ req.op = "list"
    /\ \E i \in DOMAIN resp.progress :
          /\ resp.progress[i].stats.total_checkpoints = 5
          /\ resp.progress[i].stats.completed_checkpoints = 4
          /\ resp.progress[i].stats.is_completed

\* C8 as stated: completion_rate is round(100 * completed / total), 0 for an
\* empty array, and is_completed is true exactly when completion_rate >= 80.
C8_StatsConsistent ==
    (req.op = "save" /\ resp.status = 200) =>
        LET total == Len(resp.progress.checkpoints)
            completed == TrueCount(resp.progress.checkpoints)
            rate == resp.stats.completion_rate
        IN  /\ rate = IF total = 0 THEN 0 ELSE RoundHalfUp(100 * completed, total)
            /\ resp.stats.is_completed <=> rate >= 80

\* C8 amended: completion_rate is an integer nearest to 100 * completed /
\* total (0 for an empty array); is_completed is decided on the unrounded
\* ratio, so it implies completion_rate >= 80 and follows from
\* completion_rate >= 81, while completion_rate = 80 leaves it open.
C8_StatsConsistentAmended ==
    (req.op = "save" /\ resp.status = 200) =>
        LET total == Len(resp.progress.checkpoints)
            completed == TrueCount(resp.progress.checkpoints)
            rate == resp.stats.completion_rate
            off == rate * total - 100 * completed
        IN  /\ total = 0 => rate = 0
            /\ 2 * off <= total /\ -2 * off <= total
            /\ resp.stats.is_completed <=> (total > 0 /\ 5 * completed >= 4 * total)
            /\ resp.stats.is_completed => rate >= 80
            /\ rate >= 81 => resp.stats.is_completed

\* a save answers completion_rate 80 and is_completed false (35 of 44)
C8_Witness ==
    /\ req.op = "save"
    /\ resp.status = 200
    /\ resp.stats.completion_rate = 80
    /\ ~resp.stats.is_completed

(* ---------------------------------------------------------------------- *)
(* Properties of the concurrent saves (SpecConc)                           *)
(* ---------------------------------------------------------------------- *)
\* the table after the request of a handler is served alone on the table
ServedAlone(table, h) ==
    LET rows == SelectRow(table, h.videoId, h.userId)
    IN  IF Len(rows) > 0 /\ hasRegression(rows[1], h.body.checkpoints)
        THEN table
        ELSE Upsert(table, h.videoId, h.userId, mergeProgress(rows, h.body), now)

AllDone == \A p \in Procs : handlers[p].pc = "done"

\* C4: when both requests are answered the table is the one that serving
\* them one after the other in some order leaves, and every true checkpoint
\* and true quiz answer of an accepted request is stored.
C4_SavesSerializable ==
    AllDone =>
        /\ \E first \in Procs :
              \E second \in Procs \ {first} :
                  video_progress =
                      ServedAlone(ServedAlone(<<>>, handlers[first]), handlers[second])
        /\ \A p \in Procs :
              handlers[p].resp.status = 200 =>
                  LET row == video_progress[<<handlers[p].videoId, handlers[p].userId>>]
                      body == handlers[p].body
                  IN  /\ \A i \in 1..Len(body.checkpoints) :
                            body.checkpoints[i] => At(row.checkpoints, i)
                      /\ \A k \in DOMAIN BodyQuizzes(body) :
                            BodyQuizzes(body)[k] =>
                                (k \in DOMAIN row.quizzes /\ row.quizzes[k])

====
